---- MODULE Spec2Model ----
(***************************************************************************)
(* Model of analyze_health_data.py: load_data (np.genfromtxt), the two     *)
(* aggregators, generate_report, save_report and main.                     *)
(*                                                                         *)
(* Text is modelled structurally.  A raw CSV field is a record saying      *)
(* whether its text parses as an integer and, if so, which one.  A         *)
(* formatted average is a record holding what f"{x:.1f}" prints: "nan" or  *)
(* an optional minus sign, the integer part and the list of fractional     *)
(* digits.  A report is the sequence of its lines, a line the tuple of its *)
(* literal pieces and substituted values.  A path is the sequence of its   *)
(* components, a file's content the sequence of the texts written to it.   *)
(***************************************************************************)
EXTENDS Integers, Sequences, FiniteSets, TLC

\* inputFile       the CSV file at 'health_data.csv': whether it exists, its data rows
\* fs              the directories and files at and around the output path
\* filename        the destination path handed to save_report
\* pc              the statement main (or the function under test) is at
\* data .. report  the locals of main
\* err             the exception that ended the run, "none" without one
\* stdout          the lines printed by the current run
\* trace           history: the statements the current run has executed
\* fsAtStart       history: fs when the current run started
\* outcomes        history: how each finished run ended and what it left
VARIABLES inputFile, fs, filename, pc, data, stats, abnormal,
          total_readings, report, err, stdout, trace, fsAtStart, outcomes

vars == <<inputFile, fs, filename, pc, data, stats, abnormal,
          total_readings, report, err, stdout, trace, fsAtStart, outcomes>>

\* ------------------------------------------------------------------ bounds
\* Largest number of data rows in an input file.  The formatting model
\* below is exact for fewer than 20 rows (see FormatFixed).
MaxRows == 3
\* Largest number of times main is run on the same input file.
MaxRuns == 2

\* ------------------------------------------------------- program constants
HeartRateLimit == 90
SystolicLimit == 130
GlucoseLimit == 110
\* number of fields of the dtype given to genfromtxt
NumFields == 8
\* the precision of the format specification ".1f"
Precision == 1
\* filling value of genfromtxt's loose integer conversion
IntFill == -1

\* --------------------------------------------------------------- raw input
Txt(v) == [ok |-> TRUE, v |-> v]
\* a field whose text is not an integer literal ("abc", "", "98.6")
BadTxt == [ok |-> FALSE, v |-> 0]

RawRow(nf, hr, bp, gl) == [nf |-> nf, hr |-> hr, bp |-> bp, gl |-> gl]

\* a row one field short of the schema
ShortRow == RawRow(NumFields - 1, Txt(80), Txt(130), Txt(110))

\* rows of eight fields whose three aggregated columns all parse
ValidRows ==
    { RawRow(NumFields, Txt(h), Txt(b[1]), Txt(b[2])) :
        h \in {80, 90, 95},
        b \in {<<130, 110>>, <<131, 110>>, <<130, 111>>, <<131, 111>>} }
    \cup { RawRow(NumFields, Txt(-7), Txt(130), Txt(111)) }

\* a row of eight fields whose heart_rate text is not a number
BadFieldRow == RawRow(NumFields, BadTxt, Txt(131), Txt(110))

RawRows == ValidRows \cup {BadFieldRow, ShortRow}

RECURSIVE SeqsUpTo(_, _)
SeqsUpTo(S, n) ==
    IF n = 0 THEN { <<>> }
    ELSE LET shorter == SeqsUpTo(S, n - 1)
         IN  shorter \cup { Append(s, x) : s \in { t \in shorter : Len(t) = n - 1 }, x \in S }

IsValidRow(r) == r.nf = NumFields /\ r.hr.ok /\ r.bp.ok /\ r.gl.ok

\* ------------------------------------------------------------------ loader
NoData == [ndim |-> -1, rows |-> <<>>]

\* StringConverter._loose_call for an 'i4' column: int(text), and the
\* filling value when int() raises ValueError
LooseInt(field) == IF field.ok THEN field.v ELSE IntFill

ConvertRow(r) == [heart_rate |-> LooseInt(r.hr),
                  blood_pressure_systolic |-> LooseInt(r.bp),
                  glucose_level |-> LooseInt(r.gl)]

\* np.genfromtxt(filename, delimiter=',', dtype=dtype, skip_header=1):
\*  - a missing file raises FileNotFoundError;
\*  - the column count is taken from the first data row; a row with another
\*    count is an invalid line and raises ValueError (invalid_raise=True);
\*  - rows of a consistent count other than the dtype's cannot be stored in
\*    the structured array and raise ValueError;
\*  - otherwise every field goes through the loose converter, and the result
\*    is squeezed: one data row gives a 0-d array, any other count a 1-d one.
genfromtxt(file) ==
    IF ~file.exists
    THEN [ok |-> FALSE, err |-> "FileNotFoundError", data |-> NoData]
    ELSE LET rows == file.rows
             n == Len(rows)
             invalid == { i \in 1..n : rows[i].nf # rows[1].nf }
         IN  IF invalid # {} \/ (n > 0 /\ rows[1].nf # NumFields)
             THEN [ok |-> FALSE, err |-> "ValueError", data |-> NoData]
             ELSE [ok |-> TRUE, err |-> "none",
                   data |-> [ndim |-> IF n = 1 THEN 0 ELSE 1,
                             rows |-> [i \in 1..n |-> ConvertRow(rows[i])]]]

\* a loader that answers a missing file with an empty dataset
load_data_lenient(file) ==
    IF file.exists THEN genfromtxt(file)
    ELSE [ok |-> TRUE, err |-> "none", data |-> [ndim |-> 1, rows |-> <<>>]]

load_data(file) == genfromtxt(file)

\* len(data): TypeError ("len() of unsized object") on a 0-d array
len(d) == IF d.ndim = 0
          THEN [ok |-> FALSE, err |-> "TypeError", value |-> 0]
          ELSE [ok |-> TRUE, err |-> "none", value |-> Len(d.rows)]

\* -------------------------------------------------------------- aggregator
\* data['heart_rate'] and the other field selections
Column(d, name) == [i \in 1..Len(d.rows) |-> d.rows[i][name]]

RECURSIVE SumSeq(_)
SumSeq(s) == IF s = <<>> THEN 0 ELSE s[1] + SumSeq(Tail(s))

\* ndarray.mean(): the sum over the element count as a float64, nan (with a
\* RuntimeWarning, no exception) for an empty array.  Kept as a fraction.
mean(col) == [num |-> SumSeq(col), den |-> Len(col)]

RECURSIVE Pow10(_)
Pow10(k) == IF k = 0 THEN 1 ELSE 10 * Pow10(k - 1)

RECURSIVE Digits(_, _)
\* the k decimal digits of n, most significant first
Digits(n, k) == IF k = 0 THEN <<>> ELSE Append(Digits(n \div 10, k - 1), n % 10)

Abs(x) == IF x < 0 THEN -x ELSE x

\* f"{x:.<prec>f}" of the float64 x = num/den.  The conversion rounds the
\* stored binary value to nearest, ties to even.  For den < 20 a quotient
\* that lies exactly between two one-decimal values has a power-of-two
\* denominator and is stored exactly, and any other quotient is farther
\* from such a midpoint than the float64 error, so rounding the fraction
\* gives the printed digits.  A negative value keeps its sign even when it
\* prints as zero ("-0.0").
FormatFixed(x, prec) ==
    IF x.den = 0
    THEN [nan |-> TRUE, neg |-> FALSE, whole |-> 0, frac |-> <<>>]
    ELSE LET scale == Pow10(prec)
             a == Abs(x.num) * scale
             q == a \div x.den
             r == a % x.den
             t == IF 2 * r < x.den THEN q
                  ELSE IF 2 * r > x.den THEN q + 1
                  ELSE IF q % 2 = 0 THEN q ELSE q + 1
         IN  [nan |-> FALSE, neg |-> x.num < 0,
              whole |-> t \div scale, frac |-> Digits(t % scale, prec)]

\* the format specification ".2f" in place of ".1f"
Format2f(x) == FormatFixed(x, Precision + 1)

\* cutting the digits after the first decimal instead of rounding
FormatTruncated(x) ==
    IF x.den = 0 THEN FormatFixed(x, Precision)
    ELSE LET t == (Abs(x.num) * Pow10(Precision)) \div x.den
         IN  [nan |-> FALSE, neg |-> x.num < 0,
              whole |-> t \div Pow10(Precision),
              frac |-> Digits(t % Pow10(Precision), Precision)]

Format1f(x) == FormatFixed(x, Precision)

\* a local of main that has not been assigned yet
NoValue == [nan |-> FALSE, neg |-> FALSE, whole |-> -1, frac |-> <<>>]
NoStats == [avg_heart_rate |-> NoValue, avg_systolic_bp |-> NoValue,
            avg_glucose |-> NoValue]

calculate_statistics(d) ==
    [avg_heart_rate |-> Format1f(mean(Column(d, "heart_rate"))),
     avg_systolic_bp |-> Format1f(mean(Column(d, "blood_pressure_systolic"))),
     avg_glucose |-> Format1f(mean(Column(d, "glucose_level")))]

\* the comparison >= in place of >
AtOrAbove(col, limit) == [i \in 1..Len(col) |-> col[i] >= limit]

\* (column > limit): the boolean mask
Above(col, limit) == [i \in 1..Len(col) |-> col[i] > limit]

RECURSIVE SumMask(_)
\* mask.sum(): the number of True entries
SumMask(m) == IF m = <<>> THEN 0 ELSE (IF m[1] THEN 1 ELSE 0) + SumMask(Tail(m))

NoAbnormal == [high_heart_rate |-> -1, high_blood_pressure |-> -1, high_glucose |-> -1]

find_abnormal_readings(d) ==
    [high_heart_rate |-> SumMask(Above(Column(d, "heart_rate"), HeartRateLimit)),
     high_blood_pressure |->
         SumMask(Above(Column(d, "blood_pressure_systolic"), SystolicLimit)),
     high_glucose |-> SumMask(Above(Column(d, "glucose_level"), GlucoseLimit))]

\* ---------------------------------------------------------------- reporter
NoReport == <<>>

\* the heart-rate and systolic averages in each other's place
generate_report_swapped(st, ab, total) ==
    << <<"Health Sensor Data Analysis Report">>,
       <<"==================================">>,
       <<"">>,
       <<"Dataset Summary:">>,
       <<"- Total readings: ", total>>,
       <<"">>,
       <<"Average Measurements:">>,
       <<"- Heart Rate: ", st.avg_systolic_bp, " bpm">>,
       <<"- Systolic BP: ", st.avg_heart_rate, " mmHg">>,
       <<"- Glucose Level: ", st.avg_glucose, " mg/dL">>,
       <<"">>,
       <<"Abnormal Readings:">>,
       <<"- High Heart Rate (>90): ", ab.high_heart_rate, " readings">>,
       <<"- High Blood Pressure (>130): ", ab.high_blood_pressure, " readings">>,
       <<"- High Glucose (>110): ", ab.high_glucose, " readings">> >>

generate_report(st, ab, total) ==
    << <<"Health Sensor Data Analysis Report">>,
       <<"==================================">>,
       <<"">>,
       <<"Dataset Summary:">>,
       <<"- Total readings: ", total>>,
       <<"">>,
       <<"Average Measurements:">>,
       <<"- Heart Rate: ", st.avg_heart_rate, " bpm">>,
       <<"- Systolic BP: ", st.avg_systolic_bp, " mmHg">>,
       <<"- Glucose Level: ", st.avg_glucose, " mg/dL">>,
       <<"">>,
       <<"Abnormal Readings:">>,
       <<"- High Heart Rate (>90): ", ab.high_heart_rate, " readings">>,
       <<"- High Blood Pressure (>130): ", ab.high_blood_pressure, " readings">>,
       <<"- High Glucose (>110): ", ab.high_glucose, " readings">> >>

\* ------------------------------------------------------------------ writer
\* A file system is the set of its directories and a function from the
\* paths of its regular files to their content.
OutputPath == <<"output", "analysis_report.txt">>

\* os.path.dirname: everything before the last component, '' for a bare name
dirname(p) == SubSeq(p, 1, Len(p) - 1)

Prefixes(d) == { SubSeq(d, 1, k) : k \in 1..Len(d) }

IsFile(fsys, p) == p \in DOMAIN fsys.files

\* os.makedirs(d, exist_ok=True): '' raises FileNotFoundError; a regular
\* file at d raises FileExistsError, one above d NotADirectoryError; else
\* every missing directory on the way to d is created.
makedirs(fsys, d) ==
    IF d = <<>> THEN [ok |-> FALSE, err |-> "FileNotFoundError", fs |-> fsys]
    ELSE IF IsFile(fsys, d) THEN [ok |-> FALSE, err |-> "FileExistsError", fs |-> fsys]
    ELSE IF \E q \in Prefixes(d) : IsFile(fsys, q)
         THEN [ok |-> FALSE, err |-> "NotADirectoryError", fs |-> fsys]
    ELSE [ok |-> TRUE, err |-> "none",
          fs |-> [fsys EXCEPT !.dirs = @ \cup Prefixes(d)]]

\* mode 'a' in place of 'w': the text lands after the old content
WrittenAppended(old, text) == Append(old, text)

\* what open(p, 'w') followed by f.write(text) leaves in the file
Written(old, text) == <<text>>

\* with open(p, 'w') as f: f.write(text)
write_file(fsys, p, text) ==
    IF p \in fsys.dirs THEN [ok |-> FALSE, err |-> "IsADirectoryError", fs |-> fsys]
    ELSE LET old == IF IsFile(fsys, p) THEN fsys.files[p] ELSE <<>>
         IN  [ok |-> TRUE, err |-> "none",
              fs |-> [fsys EXCEPT !.files =
                        [q \in DOMAIN fsys.files \cup {p} |->
                            IF q = p THEN Written(old, text) ELSE fsys.files[q]]]]

save_report(fsys, text, p) ==
    LET made == makedirs(fsys, dirname(p))
    IN  IF made.ok THEN write_file(made.fs, p, text) ELSE made

\* -------------------------------------------------------------------- main
Stages == <<"load", "statistics", "abnormal", "len", "report", "save", "print">>

SuccessLine == "Analysis complete! Report saved to output/analysis_report.txt"

StageIndex(stage) == CHOOSE k \in 1..Len(Stages) : Stages[k] = stage

\* a main that swallows the exception and goes on with the next statement
NextStageSwallowing(stage, ok) ==
    IF StageIndex(stage) = Len(Stages) THEN "done"
    ELSE Stages[StageIndex(stage) + 1]

\* where main goes after a stage: the next statement, the end of main, or
\* out of main with the exception the stage raised
NextStage(stage, ok) ==
    IF ~ok THEN "failed"
    ELSE IF StageIndex(stage) = Len(Stages) THEN "done"
    ELSE Stages[StageIndex(stage) + 1]

FileContent(fsys, p) == IF IsFile(fsys, p) THEN fsys.files[p] ELSE <<>>

\* the record of a finished run, appended when the run ends
Ended(pcNext, errNext, fsNext) ==
    IF pcNext \in {"done", "failed"}
    THEN Append(outcomes, [status |-> pcNext, err |-> errNext,
                           exists |-> IsFile(fsNext, OutputPath),
                           content |-> FileContent(fsNext, OutputPath)])
    ELSE outcomes

Step(stage, ok, e, fsNext) ==
    /\ pc = stage
    /\ pc' = NextStage(stage, ok)
    /\ err' = e
    /\ trace' = Append(trace, stage)
    /\ fs' = fsNext
    /\ outcomes' = Ended(NextStage(stage, ok), e, fsNext)
    /\ UNCHANGED <<inputFile, filename, fsAtStart>>

\* data = load_data('health_data.csv')
Load ==
    LET res == load_data(inputFile)
    IN  /\ Step("load", res.ok, res.err, fs)
        /\ data' = res.data
        /\ UNCHANGED <<stats, abnormal, total_readings, report, stdout>>

\* stats = calculate_statistics(data)
Statistics ==
    /\ Step("statistics", TRUE, "none", fs)
    /\ stats' = calculate_statistics(data)
    /\ UNCHANGED <<data, abnormal, total_readings, report, stdout>>

\* abnormal = find_abnormal_readings(data)
Abnormal ==
    /\ Step("abnormal", TRUE, "none", fs)
    /\ abnormal' = find_abnormal_readings(data)
    /\ UNCHANGED <<data, stats, total_readings, report, stdout>>

\* total_readings = len(data)
CountReadings ==
    LET res == len(data)
    IN  /\ Step("len", res.ok, res.err, fs)
        /\ total_readings' = IF res.ok THEN res.value ELSE total_readings
        /\ UNCHANGED <<data, stats, abnormal, report, stdout>>

\* report = generate_report(stats, abnormal, total_readings)
Report ==
    /\ Step("report", TRUE, "none", fs)
    /\ report' = generate_report(stats, abnormal, total_readings)
    /\ UNCHANGED <<data, stats, abnormal, total_readings, stdout>>

\* save_report(report, 'output/analysis_report.txt')
Save ==
    LET res == save_report(fs, report, filename)
    IN  /\ Step("save", res.ok, res.err, res.fs)
        /\ UNCHANGED <<data, stats, abnormal, total_readings, report, stdout>>

\* print("... Analysis complete! ...")
PrintSuccess ==
    /\ Step("print", TRUE, "none", fs)
    /\ stdout' = Append(stdout, SuccessLine)
    /\ UNCHANGED <<data, stats, abnormal, total_readings, report>>

\* the script is invoked again on the same, unchanged input file
Invoke ==
    /\ pc \in {"done", "failed"}
    /\ Len(outcomes) < MaxRuns
    /\ pc' = "load"
    /\ data' = NoData
    /\ stats' = NoStats
    /\ abnormal' = NoAbnormal
    /\ total_readings' = -1
    /\ report' = NoReport
    /\ err' = "none"
    /\ stdout' = <<>>
    /\ trace' = <<>>
    /\ fsAtStart' = fs
    /\ UNCHANGED <<inputFile, fs, filename, outcomes>>

\* a report left by an earlier analysis of other data
StaleReport == generate_report(calculate_statistics([ndim |-> 1, rows |-> <<>>]),
                               find_abnormal_readings([ndim |-> 1, rows |-> <<>>]), 0)

NoFiles == [p \in {} |-> <<>>]

\* what may be at and around the output path before the first run
OutputStates ==
    { [dirs |-> {}, files |-> NoFiles],
      [dirs |-> {<<"output">>}, files |-> NoFiles],
      [dirs |-> {<<"output">>}, files |-> [p \in {OutputPath} |-> <<StaleReport>>]],
      [dirs |-> {}, files |-> [p \in {<<"output">>} |-> <<StaleReport>>]],
      [dirs |-> {<<"output">>, OutputPath}, files |-> NoFiles] }

\* the rows the whole-program runs draw their input files from
PipelineRows ==
    { RawRow(NumFields, Txt(95), Txt(131), Txt(111)),
      RawRow(NumFields, Txt(80), Txt(130), Txt(110)),
      RawRow(NumFields, Txt(90), Txt(131), Txt(110)),
      BadFieldRow, ShortRow }

InputFiles ==
    { [exists |-> FALSE, rows |-> <<>>] }
    \cup { [exists |-> TRUE, rows |-> rs] : rs \in SeqsUpTo(PipelineRows, MaxRows) }

Init ==
    /\ inputFile \in InputFiles
    /\ fs \in OutputStates
    /\ filename = OutputPath
    /\ pc = "load"
    /\ data = NoData
    /\ stats = NoStats
    /\ abnormal = NoAbnormal
    /\ total_readings = -1
    /\ report = NoReport
    /\ err = "none"
    /\ stdout = <<>>
    /\ trace = <<>>
    /\ fsAtStart = fs
    /\ outcomes = <<>>

Next ==
    \/ Load
    \/ Statistics
    \/ Abnormal
    \/ CountReadings
    \/ Report
    \/ Save
    \/ PrintSuccess
    \/ Invoke

Spec == Init /\ [][Next]_vars

\* ------------------------------------------- the aggregators and the reporter
\* The functions are applied to every dataset the loader can return for a
\* file of at most MaxRows rows over RawRows.
LoadableRows == { r \in RawRows : r.nf = NumFields }

FnInit ==
    /\ inputFile \in { [exists |-> TRUE, rows |-> rs] :
                            rs \in SeqsUpTo(LoadableRows, MaxRows) }
    /\ data = load_data(inputFile).data
    /\ fs = [dirs |-> {}, files |-> NoFiles]
    /\ filename = OutputPath
    /\ pc = "fn_start"
    /\ stats = NoStats
    /\ abnormal = NoAbnormal
    /\ total_readings = -1
    /\ report = NoReport
    /\ err = "none"
    /\ stdout = <<>>
    /\ trace = <<>>
    /\ fsAtStart = fs
    /\ outcomes = <<>>

FnStatistics ==
    /\ pc = "fn_start"
    /\ pc' = "fn_statistics"
    /\ stats' = calculate_statistics(data)
    /\ UNCHANGED <<inputFile, fs, filename, data, abnormal, total_readings, report,
                   err, stdout, trace, fsAtStart, outcomes>>

FnAbnormal ==
    /\ pc = "fn_statistics"
    /\ pc' = "fn_abnormal"
    /\ abnormal' = find_abnormal_readings(data)
    /\ UNCHANGED <<inputFile, fs, filename, data, stats, total_readings, report,
                   err, stdout, trace, fsAtStart, outcomes>>

FnReport ==
    /\ pc = "fn_abnormal"
    /\ \E total \in 0..MaxRows :
          /\ total_readings' = total
          /\ report' = generate_report(stats, abnormal, total)
    /\ pc' = "fn_report"
    /\ UNCHANGED <<inputFile, fs, filename, data, stats, abnormal,
                   err, stdout, trace, fsAtStart, outcomes>>

FnNext ==
    \/ FnStatistics
    \/ FnAbnormal
    \/ FnReport

FnSpec == FnInit /\ [][FnNext]_vars

\* ---------------------------------------------------- save_report on its own
ReportName == "report.txt"

SavePaths == { <<ReportName>>, <<"output", ReportName>>, <<"a", "b", ReportName>> }

SaveTexts == { StaleReport,
               generate_report(calculate_statistics([ndim |-> 1, rows |-> <<>>]),
                               find_abnormal_readings([ndim |-> 1, rows |-> <<>>]), 1) }

\* every file system over the names below in which each entry lies in a
\* directory that exists and no path is both a directory and a file
SaveFileSystems ==
    LET dirNames == { <<"output">>, <<"a">>, <<"a", "b">>, <<"output", ReportName>> }
        fileNames == SavePaths \cup { <<"output">>, <<"a">>, <<"a", "b">> }
    IN  { [dirs |-> D, files |-> [p \in F |-> <<StaleReport>>]] :
            D \in SUBSET dirNames, F \in SUBSET fileNames }

WellFormed(fsys) ==
    /\ fsys.dirs \cap DOMAIN fsys.files = {}
    /\ \A p \in fsys.dirs \cup DOMAIN fsys.files :
          dirname(p) = <<>> \/ dirname(p) \in fsys.dirs

SaveInit ==
    /\ fs \in { f \in SaveFileSystems : WellFormed(f) }
    /\ report \in SaveTexts
    /\ filename \in SavePaths
    /\ inputFile = [exists |-> FALSE, rows |-> <<>>]
    /\ pc = "save_call"
    /\ data = NoData
    /\ stats = NoStats
    /\ abnormal = NoAbnormal
    /\ total_readings = -1
    /\ err = "none"
    /\ stdout = <<>>
    /\ trace = <<>>
    /\ fsAtStart = fs
    /\ outcomes = <<>>

SaveCall ==
    LET res == save_report(fs, report, filename)
    IN  /\ pc = "save_call"
        /\ pc' = IF res.ok THEN "save_returned" ELSE "save_raised"
        /\ err' = res.err
        /\ fs' = res.fs
        /\ UNCHANGED <<inputFile, filename, data, stats, abnormal, total_readings,
                       report, stdout, trace, fsAtStart, outcomes>>

SaveNext == SaveCall

SaveSpec == SaveInit /\ [][SaveNext]_vars


\* ------------------------------------------------- properties of whole runs
Range(s) == { s[i] : i \in 1..Len(s) }

AllRowsValid == \A i \in 1..Len(inputFile.rows) : IsValidRow(inputFile.rows[i])

\* C1: for an input file with N >= 1 valid data rows main completes its
\* computation (nothing before the writer fails) and the report's
\* "Total readings" line carries N.
C1_TotalReadingsIsRowCount ==
    (inputFile.exists /\ Len(inputFile.rows) >= 1 /\ AllRowsValid)
        => /\ pc = "failed" => trace[Len(trace)] = "save"
           /\ "report" \in Range(trace)
                => report[5] = <<"- Total readings: ", Len(inputFile.rows)>>

\* C5: when the input file does not exist the run ends in the loader with a
\* file-access error, save_report is never reached, and neither the output
\* directory nor the output file is created or changed.
C5_MissingInputWritesNothing ==
    ~inputFile.exists
        => /\ fs = fsAtStart
           /\ "save" \notin Range(trace)
           /\ trace # <<>> => /\ trace = <<"load">>
                              /\ pc = "failed"
                              /\ err = "FileNotFoundError"

C5_Witness ==
    /\ ~inputFile.exists
    /\ pc = "failed"
    /\ trace = <<"load">>
    /\ fs = [dirs |-> {}, files |-> NoFiles]

\* C6: whenever some data row has a field count other than eight or a field
\* that does not parse as its column's type, load_data fails and returns no
\* dataset.
C6_LoaderIsStrict ==
    (inputFile.exists /\ ~AllRowsValid /\ "load" \in Range(trace))
        => /\ pc = "failed"
           /\ trace = <<"load">>
           /\ data = NoData

\* C8: when a run has succeeded, every later run on the same unchanged input
\* succeeds as well and leaves the output file with the same content.
C8_RerunIsIdentical ==
    \A i \in 1..Len(outcomes) :
        outcomes[1].status = "done" => outcomes[i] = outcomes[1]

C8_Witness ==
    /\ Len(outcomes) >= 2
    /\ outcomes[1].status = "done"
    /\ outcomes[2].exists
    /\ Len(inputFile.rows) >= 2

\* C10: the statements of main run in program order, each at most once; an
\* exception ends the run at the statement that raised it; the file system
\* is untouched until save_report runs; the success line is printed once,
\* only by a run without error and only after the report is in the file.
C10_StagesInOrder ==
    LET k == Len(trace)
    IN  /\ k <= Len(Stages)
        /\ \A i \in 1..k : trace[i] = Stages[i]
        /\ (err # "none") <=> (pc = "failed")
        /\ pc # "failed" => pc = (IF k = Len(Stages) THEN "done" ELSE Stages[k + 1])
        /\ pc = "failed" => k >= 1 /\ stdout = <<>>
        /\ "save" \notin Range(trace) => fs = fsAtStart
        /\ stdout # <<>> => /\ stdout = <<SuccessLine>>
                            /\ pc = "done"
                            /\ FileContent(fs, OutputPath) = <<report>>
        /\ pc = "done" => stdout = <<SuccessLine>>

C10_Witness ==
    /\ Len(outcomes) = 2
    /\ outcomes[1].status = "failed"
    /\ outcomes[1].err = "FileExistsError"
    /\ trace = <<"load", "statistics", "abnormal", "len", "report", "save">>

C10_WitnessDone == pc = "done" /\ stdout = <<SuccessLine>> /\ fs # fsAtStart

\* ------------------------------------- properties of the aggregators, reporter
NumRows == Len(data.rows)

ExceedCount(name, limit) == Cardinality({ i \in 1..NumRows : data.rows[i][name] > limit })

\* C2: each count lies in 0..N and is the number of rows whose value is
\* strictly above the threshold (90, 130, 110), each column counted on its
\* own.
C2_CountsAreStrictExceedances ==
    pc \in {"fn_abnormal", "fn_report"}
        => /\ abnormal.high_heart_rate = ExceedCount("heart_rate", 90)
           /\ abnormal.high_blood_pressure = ExceedCount("blood_pressure_systolic", 130)
           /\ abnormal.high_glucose = ExceedCount("glucose_level", 110)
           /\ \A k \in DOMAIN abnormal : abnormal[k] \in 0..NumRows

\* a row at a threshold next to a row that counts in all three categories
C2_Witness ==
    /\ pc = "fn_abnormal"
    /\ NumRows = 2
    /\ data.rows[1] = [heart_rate |-> 90, blood_pressure_systolic |-> 130,
                       glucose_level |-> 110]
    /\ data.rows[2] = [heart_rate |-> 95, blood_pressure_systolic |-> 131,
                       glucose_level |-> 111]
    /\ abnormal = [high_heart_rate |-> 1, high_blood_pressure |-> 1, high_glucose |-> 1]

StatsComputed == pc \in {"fn_statistics", "fn_abnormal", "fn_report"}

IsDigits(ds) == \A i \in 1..Len(ds) : ds[i] \in 0..9

\* C3 as stated: for every dataset, zero rows included, each average is
\* digits, a decimal point and exactly one digit.
C3_AlwaysDigitsPointDigit ==
    StatsComputed
        => \A k \in DOMAIN stats :
              /\ ~stats[k].nan
              /\ ~stats[k].neg
              /\ stats[k].whole \in Nat
              /\ Len(stats[k].frac) = 1
              /\ IsDigits(stats[k].frac)

\* C3 amended: for a dataset with at least one row each average is an
\* optional minus sign, digits, a decimal point and exactly one digit; for
\* a dataset with no rows each average is the text "nan".
C3_OneDecimalUnlessEmpty ==
    StatsComputed
        => \A k \in DOMAIN stats :
              IF NumRows = 0
              THEN stats[k].nan
              ELSE /\ ~stats[k].nan
                   /\ stats[k].whole \in Nat
                   /\ Len(stats[k].frac) = 1
                   /\ IsDigits(stats[k].frac)

\* a negative average and, in the same summary, a three-digit one
C3_Witness ==
    /\ pc = "fn_statistics"
    /\ NumRows = 3
    /\ stats.avg_heart_rate.neg
    /\ stats.avg_systolic_bp.whole >= 100
    /\ Len(stats.avg_glucose.frac) = 1

ColumnTotal(name) == SumSeq([i \in 1..NumRows |-> data.rows[i][name]])

\* the printed value, in tenths, is a nearest tenth of total/N and carries
\* the sign of the total
IsMeanToOneDecimal(v, total) ==
    /\ ~v.nan
    /\ Len(v.frac) = 1
    /\ v.neg = (total < 0)
    /\ LET tenths == 10 * v.whole + v.frac[1]
           gap == 10 * Abs(total) - NumRows * tenths
       IN  2 * Abs(gap) <= NumRows

\* C4: for a non-empty dataset each average is the column sum divided by
\* the row count, rounded to one decimal; heart rates 95 and 80 give "87.5"
\* and one high heart rate.
C4_MeanRoundedToOneDecimal ==
    (StatsComputed /\ NumRows >= 1)
        => /\ IsMeanToOneDecimal(stats.avg_heart_rate, ColumnTotal("heart_rate"))
           /\ IsMeanToOneDecimal(stats.avg_systolic_bp,
                                 ColumnTotal("blood_pressure_systolic"))
           /\ IsMeanToOneDecimal(stats.avg_glucose, ColumnTotal("glucose_level"))
           /\ Column(data, "heart_rate") = <<95, 80>>
                => /\ stats.avg_heart_rate =
                        [nan |-> FALSE, neg |-> FALSE, whole |-> 87, frac |-> <<5>>]
                   /\ pc # "fn_statistics" => abnormal.high_heart_rate = 1

\* the example of the specification, and a mean that needs rounding up
C4_Witness ==
    /\ pc = "fn_abnormal"
    /\ Column(data, "heart_rate") = <<95, 80>>
    /\ stats.avg_heart_rate = [nan |-> FALSE, neg |-> FALSE, whole |-> 87, frac |-> <<5>>]
    /\ abnormal.high_heart_rate = 1

C4_WitnessRounded ==
    /\ pc = "fn_statistics"
    /\ Column(data, "heart_rate") = <<80, 90, 90>>
    /\ stats.avg_heart_rate = [nan |-> FALSE, neg |-> FALSE, whole |-> 86, frac |-> <<7>>]

\* the template of the specification, its seven placeholders in order
TemplateText(total, hr, bp, gl, nhr, nbp, ngl) ==
    << <<"Health Sensor Data Analysis Report">>,
       <<"==================================">>,
       <<"">>,
       <<"Dataset Summary:">>,
       <<"- Total readings: ", total>>,
       <<"">>,
       <<"Average Measurements:">>,
       <<"- Heart Rate: ", hr, " bpm">>,
       <<"- Systolic BP: ", bp, " mmHg">>,
       <<"- Glucose Level: ", gl, " mg/dL">>,
       <<"">>,
       <<"Abnormal Readings:">>,
       <<"- High Heart Rate (>90): ", nhr, " readings">>,
       <<"- High Blood Pressure (>130): ", nbp, " readings">>,
       <<"- High Glucose (>110): ", ngl, " readings">> >>

\* C9: the report is the template with the total, the three averages (heart
\* rate, systolic BP, glucose) and the three counts (heart rate, blood
\* pressure, glucose) in their places, and producing it changes nothing
\* else and raises nothing.
C9_ReportIsTemplate ==
    pc = "fn_report"
        => /\ report = TemplateText(total_readings,
                                    stats.avg_heart_rate, stats.avg_systolic_bp,
                                    stats.avg_glucose,
                                    abnormal.high_heart_rate,
                                    abnormal.high_blood_pressure, abnormal.high_glucose)
           /\ err = "none"
           /\ fs = fsAtStart
           /\ stats = calculate_statistics(data)
           /\ abnormal = find_abnormal_readings(data)

C9_Witness ==
    /\ pc = "fn_report"
    /\ total_readings = 3
    /\ stats.avg_heart_rate # stats.avg_systolic_bp
    /\ abnormal.high_heart_rate = 2
    /\ abnormal.high_blood_pressure = 1
    /\ abnormal.high_glucose = 0
    /\ Len(report) = 15

\* ------------------------------------------------- properties of save_report
\* nothing stands in the way of the write: no regular file at or above the
\* destination's directory, no directory at the destination
Unobstructed ==
    /\ filename \notin fsAtStart.dirs
    /\ \A q \in Prefixes(dirname(filename)) : ~IsFile(fsAtStart, q)

\* C7: for every destination, with or without a directory part, save_report
\* creates the missing parent directories and leaves the report as the
\* file's whole content.
C7_SaveWritesEveryPath ==
    (pc \in {"save_returned", "save_raised"} /\ Unobstructed)
        => /\ pc = "save_returned"
           /\ Prefixes(dirname(filename)) \subseteq fs.dirs
           /\ IsFile(fs, filename)
           /\ fs.files[filename] = <<report>>

====
